---- MODULE Spec2Model ----
(***************************************************************************)
(* Access resolution, allow-list policy, inbound authentication middleware,*)
(* transport error classification and the connection handle lifecycle of   *)
(* the GitHub MCP server.                                                  *)
(*                                                                         *)
(* Python strings are modelled as sequences of one-character strings, so   *)
(* that strip(), lower(), split() and startswith() are computed, and       *)
(* Python's None is a value distinct from every string.                    *)
(***************************************************************************)
EXTENDS Integers, Sequences, FiniteSets, TLC

VARIABLES
    gh_default_owner,   \* Settings.gh_default_owner   (config.py:29)
    gh_default_repo,    \* Settings.gh_default_repo    (config.py:33)
    gh_allowed_repos,   \* Settings.gh_allowed_repos   (config.py:37)
    runtime_owner,      \* Settings._runtime_owner     (config.py:56)
    runtime_repo,       \* Settings._runtime_repo      (config.py:57)
    last,               \* the operation being served: name, arguments, outcome
    trace,              \* what that operation did, in order
    mcp_api_key,        \* Settings.mcp_api_key        (config.py:50)
    scope,              \* the ASGI scope of the inbound request being served
    events,             \* what each layer of the application did with it
    client,             \* GitHubClient._client: "None", "open" or "closed"
    transport,          \* what the transport gave the _request call in progress
    outcome,            \* what that _request call gave its caller
    attempts,           \* what each client.request(...) of that call was given
    clients,            \* GitHubClient._client of each client object: a handle or 0
    handles,            \* every httpx.AsyncClient created so far
    tasks,              \* the coroutines of the event loop and where each one is
    phase,              \* where the server's lifespan is
    payload,            \* what _request gave the get_contents call in progress
    contents            \* what that get_contents call gave its caller

vars == <<gh_default_owner, gh_default_repo, gh_allowed_repos,
          runtime_owner, runtime_repo, last, trace,
          mcp_api_key, scope, events, client, transport, outcome,
          attempts, clients, handles, tasks, phase, payload, contents>>

(***************************************************************************)
(* Python values                                                           *)
(***************************************************************************)

\* None: a one-element sequence whose element is no character
None == <<"<None>">>

\* bool(x) of an optional string: None and "" are falsy
Truthy(x) == x # None /\ x # <<>>

\* a or b
PyOr(a, b) == IF Truthy(a) THEN a ELSE b

Whitespace == {" "}

RECURSIVE lstrip(_)
lstrip(s) == IF s # <<>> /\ Head(s) \in Whitespace THEN lstrip(Tail(s)) ELSE s

RECURSIVE rstrip(_)
rstrip(s) ==
    IF s # <<>> /\ s[Len(s)] \in Whitespace
    THEN rstrip(SubSeq(s, 1, Len(s) - 1))
    ELSE s

\* str.strip()
strip(s) == rstrip(lstrip(s))

UpperToLower ==
    [c \in {"A", "E", "O", "P", "R", "S", "U", "W"} |->
        CASE c = "A" -> "a" [] c = "E" -> "e" [] c = "O" -> "o"
          [] c = "P" -> "p" [] c = "R" -> "r" [] c = "S" -> "s"
          [] c = "U" -> "u" [] c = "W" -> "w"]

\* str.lower()
lower(s) ==
    [i \in 1..Len(s) |->
        IF s[i] \in DOMAIN UpperToLower THEN UpperToLower[s[i]] ELSE s[i]]

\* c in s
Contains(s, c) == \E i \in 1..Len(s) : s[i] = c

\* s.index(c) for a character that occurs in s (1-based)
IndexOf(s, c) ==
    CHOOSE i \in 1..Len(s) : s[i] = c /\ \A j \in 1..(i - 1) : s[j] # c

\* s.split(c): every separator splits
RECURSIVE split(_, _)
split(s, c) ==
    IF ~Contains(s, c)
    THEN <<s>>
    ELSE <<SubSeq(s, 1, IndexOf(s, c) - 1)>>
            \o split(SubSeq(s, IndexOf(s, c) + 1, Len(s)), c)

\* s.split(c, 1) for a string that contains c
split1(s, c) ==
    <<SubSeq(s, 1, IndexOf(s, c) - 1), SubSeq(s, IndexOf(s, c) + 1, Len(s))>>

\* s.startswith(p)
startswith(s, p) == Len(s) >= Len(p) /\ SubSeq(s, 1, Len(p)) = p

(***************************************************************************)
(* Settings (config.py)                                                    *)
(***************************************************************************)

\* ParseItem splitting at the last slash, as item.rsplit("/", 1)
ParseItem_last_slash(item) ==
    IF Contains(item, "/")
    THEN LET k == CHOOSE i \in 1..Len(item) :
                     item[i] = "/" /\ \A j \in (i + 1)..Len(item) : item[j] # "/"
             p == <<SubSeq(item, 1, k - 1), SubSeq(item, k + 1, Len(item))>>
         IN  IF p[2] = <<"*">> THEN <<p[1], None>> ELSE <<p[1], p[2]>>
    ELSE <<item, None>>

\* one item of the comma-separated list, already stripped and non-empty
ParseItem(item) ==
    IF Contains(item, "/")
    THEN LET p == split1(item, "/")
         IN  IF p[2] = <<"*">> THEN <<p[1], None>> ELSE <<p[1], p[2]>>
    ELSE <<item, None>>

RECURSIVE ParseItems(_)
ParseItems(items) ==
    IF items = <<>>
    THEN <<>>
    ELSE LET item == strip(Head(items))
         IN  IF item = <<>>
             THEN ParseItems(Tail(items))
             ELSE <<ParseItem(item)>> \o ParseItems(Tail(items))

\* Settings.allowed_repos_list
allowed_repos_list ==
    IF gh_allowed_repos = <<>> THEN <<>> ELSE ParseItems(split(gh_allowed_repos, ","))

\* is_repo_allowed without the empty-list rule
is_repo_allowed_no_empty_rule(owner, repo) ==
    \E i \in 1..Len(allowed_repos_list) :
        /\ allowed_repos_list[i][1] = owner
        /\ (allowed_repos_list[i][2] = None \/ allowed_repos_list[i][2] = repo)

\* is_repo_allowed comparing the resource of every entry, wildcard or not
is_repo_allowed_exact_only(owner, repo) ==
    IF allowed_repos_list = <<>>
    THEN TRUE
    ELSE \E i \in 1..Len(allowed_repos_list) :
            /\ allowed_repos_list[i][1] = owner
            /\ allowed_repos_list[i][2] = repo

\* is_repo_allowed comparing owner and resource without regard to case
is_repo_allowed_ignore_case(owner, repo) ==
    IF allowed_repos_list = <<>>
    THEN TRUE
    ELSE \E i \in 1..Len(allowed_repos_list) :
            /\ lower(allowed_repos_list[i][1]) = lower(owner)
            /\ \/ allowed_repos_list[i][2] = None
               \/ lower(allowed_repos_list[i][2]) = lower(repo)

\* Settings.is_repo_allowed
is_repo_allowed(owner, repo) ==
    IF allowed_repos_list = <<>>
    THEN TRUE
    ELSE \E i \in 1..Len(allowed_repos_list) :
            /\ allowed_repos_list[i][1] = owner
            /\ (allowed_repos_list[i][2] = None \/ allowed_repos_list[i][2] = repo)

\* (owner or "").strip() of a call-time argument
Clean(x) == strip(PyOr(x, <<>>))

sUser == <<"u", "s", "e", "r">>
sRepo == <<"r", "e", "p", "o">>

\* final_owner with the precedence of default and runtime override swapped
final_owner_default_first(owner) ==
    IF Truthy(Clean(owner)) /\ lower(Clean(owner)) # sUser
    THEN Clean(owner)
    ELSE PyOr(gh_default_owner, runtime_owner)

\* final_owner taking the resource sentinel for a placeholder as well
final_owner_either_sentinel(owner) ==
    IF Truthy(Clean(owner)) /\ lower(Clean(owner)) \notin {sUser, sRepo}
    THEN Clean(owner)
    ELSE PyOr(runtime_owner, gh_default_owner)

\* final_owner of get_owner_repo
final_owner(owner) ==
    IF Truthy(Clean(owner)) /\ lower(Clean(owner)) # sUser
    THEN Clean(owner)
    ELSE PyOr(runtime_owner, gh_default_owner)

\* final_repo of get_owner_repo
final_repo(repo) ==
    IF Truthy(Clean(repo)) /\ lower(Clean(repo)) # sRepo
    THEN Clean(repo)
    ELSE PyOr(runtime_repo, gh_default_repo)

\* an outcome: the exception raised ("none" when the call returns) and the value
Returns(v) == [exc |-> "none", value |-> v]
Raises(e) == [exc |-> e, value |-> None]

\* get_owner_repo refusing an empty resource as well
get_owner_repo_repo_required(owner, repo) ==
    IF ~Truthy(final_owner(owner)) \/ ~Truthy(final_repo(repo))
    THEN Raises("ValueError")
    ELSE Returns(<<final_owner(owner), final_repo(repo)>>)

\* Settings.get_owner_repo
get_owner_repo(owner, repo) ==
    IF ~Truthy(final_owner(owner))
    THEN Raises("ValueError")
    ELSE Returns(<<final_owner(owner), final_repo(repo)>>)

\* set_default_repo without the allow-list check
set_default_repo_unchecked(owner, repo) ==
    [exc |-> "none", owner |-> owner, repo |-> repo]

\* set_default_repo whose second assignment is left to a later step
set_default_repo_owner_only(owner, repo) ==
    IF ~is_repo_allowed(owner, repo)
    THEN [exc |-> "ValueError", owner |-> runtime_owner, repo |-> runtime_repo]
    ELSE [exc |-> "none", owner |-> owner, repo |-> runtime_repo]

\* set_default_repo assigning the owner before the allow-list check
set_default_repo_early_write(owner, repo) ==
    IF ~is_repo_allowed(owner, repo)
    THEN [exc |-> "ValueError", owner |-> owner, repo |-> runtime_repo]
    ELSE [exc |-> "none", owner |-> owner, repo |-> repo]

\* Settings.set_default_repo: the exception raised and the runtime fields after
set_default_repo(owner, repo) ==
    IF ~is_repo_allowed(owner, repo)
    THEN [exc |-> "ValueError", owner |-> runtime_owner, repo |-> runtime_repo]
    ELSE [exc |-> "none", owner |-> owner, repo |-> repo]

(***************************************************************************)
(* Catalog operations (tools/repositories.py)                              *)
(***************************************************************************)

\* one step of an operation: a policy call with the target it returned or
\* was given, or a transport call with the target its endpoint names
Ev(kind, owner, repo, value) ==
    [kind |-> kind, owner |-> owner, repo |-> repo, value |-> value]

Done(result, steps) == [result |-> result, trace |-> steps]

\* the outcome of awaiting a client method: the payload, or a GitHubError
ClientOutcome(resp) == IF resp = "ok" THEN Returns("payload") ELSE Raises("GitHubError")

\* the body shared by the operations that resolve, check and then call
\* /repos/{owner}/{repo}...: get_repository, delete_repository, list_languages
ResolveCheckCall(repo, method, resp) ==
    LET t == get_owner_repo(None, repo)
    IN  IF t.exc # "none"
        THEN Done(t, <<Ev("get_owner_repo", None, None, FALSE)>>)
        ELSE LET o == t.value[1]
                 r == t.value[2]
             IN  IF ~is_repo_allowed(o, r)
                 THEN Done(Returns("denied"),
                           <<Ev("get_owner_repo", o, r, TRUE),
                             Ev("is_repo_allowed", o, r, FALSE)>>)
                 ELSE Done(ClientOutcome(resp),
                           <<Ev("get_owner_repo", o, r, TRUE),
                             Ev("is_repo_allowed", o, r, TRUE),
                             Ev(method, o, r, TRUE)>>)

\* tool get_repository
get_repository(repo, resp) == ResolveCheckCall(repo, "GET", resp)

\* tool delete_repository
delete_repository(repo, resp) == ResolveCheckCall(repo, "DELETE", resp)

\* tool list_languages
list_languages(repo, resp) == ResolveCheckCall(repo, "GET", resp)

\* tool fork_repository: POST /repos/{source_owner}/{source_repo}/forks
fork_repository(source_owner, source_repo, resp) ==
    Done(ClientOutcome(resp), <<Ev("POST", source_owner, source_repo, TRUE)>>)

\* tool list_user_repos: GET /user/repos, no single target
list_user_repos(resp) ==
    Done(ClientOutcome(resp), <<Ev("GET", None, None, TRUE)>>)

\* tool set_default_repo: the owner is the static default owner
tool_set_default_repo(repo) ==
    LET s == set_default_repo(gh_default_owner, repo)
    IN  IF s.exc # "none"
        THEN [result |-> Raises(s.exc), owner |-> s.owner, repo |-> s.repo]
        ELSE [result |-> Returns("success"), owner |-> s.owner, repo |-> s.repo]

(***************************************************************************)
(* Inputs                                                                  *)
(***************************************************************************)

\* the longest run of blanks put on either side of a call-time value
MaxPad == 1

Blanks(n) == [i \in 1..n |-> " "]

Padded(base) ==
    {Blanks(l) \o b \o Blanks(r) : b \in base, l \in 0..MaxPad, r \in 0..MaxPad}

acme == <<"a", "c", "m", "e">>
bob == <<"b", "o", "b">>
widgets == <<"w", "i", "d">>
gadgets == <<"g", "a", "d">>

\* call-time owner arguments
CallOwners ==
    {None} \cup Padded({<<>>, sUser, <<"U", "s", "e", "r">>, acme}) \cup {sRepo}

\* call-time repository arguments
CallRepos ==
    {None} \cup Padded({<<>>, sRepo, <<"R", "E", "P", "O">>, widgets}) \cup {sUser}

\* targets handed to is_repo_allowed and set_default_repo
TargetOwners == {None, <<>>, acme, bob, <<"A", "c", "m", "e">>}
TargetRepos == {None, <<>>, widgets, gadgets, <<"W", "i", "d">>, widgets \o <<"/">>}

\* GH_DEFAULT_OWNER, GH_DEFAULT_REPO, GH_ALLOWED_REPOS
DefaultOwners == {None, acme, bob}
DefaultRepos == {None, gadgets}
AllowedStrings ==
    { <<>>,
      <<" ", ",", " ">>,
      acme \o <<"/", "*">>,
      acme \o <<"/">> \o widgets \o <<",", " ">> \o bob,
      acme \o <<"/">> \o widgets,
      <<",", " ">> \o acme \o <<"/">> \o widgets \o <<"/", " ", ",", ",">> \o bob \o <<"/", "*">> }

Responses == {"ok", "error"}

(***************************************************************************)
(* The policy and the catalog as a state machine                           *)
(***************************************************************************)

Call(op, args, result) == [op |-> op, args |-> args, result |-> result]

\* no call is being served
Idle == Call("idle", <<>>, Returns(None))

policyVars == <<gh_default_owner, gh_default_repo, gh_allowed_repos,
                runtime_owner, runtime_repo, last, trace>>
authVars == <<mcp_api_key, scope, events>>
clientVars == <<client, transport, outcome, attempts>>

\* no _request call is in progress
NoTransport == [kind |-> "none"]
NoOutcome == [exc |-> "pending"]

InitClientIdle ==
    /\ client = "None"
    /\ transport = NoTransport
    /\ outcome = NoOutcome
    /\ attempts = <<>>

handleVars == <<clients, handles, tasks, phase>>

\* the most coroutines that run at one time
MaxTasks == 3

\* the two GitHubClient objects of the process: the module-level _client
\* that every tool and the resource use (server.py:80) and the local
\* client of lifespan (server.py:51)
Clients == {"_client", "client"}

\* a coroutine that is not running
IdleTask == [pc |-> "idle", op |-> "none", client |-> "none", h |-> 0, exc |-> "none"]

\* both GitHubClient objects as __init__ leaves them, no coroutine running,
\* lifespan not entered
InitHandleIdle ==
    /\ clients = [c \in Clients |-> 0]
    /\ handles = <<>>
    /\ tasks = [t \in 1..MaxTasks |-> IdleTask]
    /\ phase = "startup"

contentVars == <<payload, contents>>

\* no get_contents call is in progress
NoPayload == [shape |-> "none"]

InitContentsIdle ==
    /\ payload = NoPayload
    /\ contents = NoPayload

\* no request is being served
NoScope == [type |-> "none", method |-> "none", path |-> None, headers |-> <<>>]

InitPolicy ==
    /\ InitClientIdle
    /\ InitHandleIdle
    /\ InitContentsIdle
    /\ mcp_api_key = None
    /\ scope = NoScope
    /\ events = <<>>
    /\ gh_default_owner \in DefaultOwners
    /\ gh_default_repo \in DefaultRepos
    /\ gh_allowed_repos \in AllowedStrings
    /\ runtime_owner = None
    /\ runtime_repo = None
    /\ last = Idle
    /\ trace = <<>>

configVars == <<gh_default_owner, gh_default_repo, gh_allowed_repos>>
runtimeVars == <<runtime_owner, runtime_repo>>

GetOwnerRepo ==
    \E owner \in CallOwners, repo \in CallRepos :
        /\ last.op = "idle"
        /\ last' = Call("get_owner_repo", <<owner, repo>>, get_owner_repo(owner, repo))
        /\ trace' = <<>>
        /\ UNCHANGED <<configVars, runtimeVars, authVars, clientVars, handleVars, contentVars>>

IsRepoAllowed ==
    \E owner \in TargetOwners, repo \in TargetRepos :
        /\ last.op = "idle"
        /\ last' = Call("is_repo_allowed", <<owner, repo>>,
                        Returns(is_repo_allowed(owner, repo)))
        /\ trace' = <<>>
        /\ UNCHANGED <<configVars, runtimeVars, authVars, clientVars, handleVars, contentVars>>

SetDefaultRepo ==
    \E owner \in TargetOwners, repo \in TargetRepos :
        LET s == set_default_repo(owner, repo)
        IN  /\ last.op = "idle"
            /\ runtime_owner' = s.owner
            /\ runtime_repo' = s.repo
            /\ last' = Call("set_default_repo", <<owner, repo>>,
                            IF s.exc = "none" THEN Returns(None) ELSE Raises(s.exc))
            /\ trace' = <<>>
            /\ UNCHANGED <<configVars, authVars, clientVars, handleVars, contentVars>>

ToolSetDefaultRepo ==
    \E repo \in TargetRepos \ {None} :
        LET s == tool_set_default_repo(repo)
        IN  /\ last.op = "idle"
            /\ runtime_owner' = s.owner
            /\ runtime_repo' = s.repo
            /\ last' = Call("tool_set_default_repo", <<repo>>, s.result)
            /\ trace' = <<>>
            /\ UNCHANGED <<configVars, authVars, clientVars, handleVars, contentVars>>

Ran(op, args, d) ==
    /\ last.op = "idle"
    /\ last' = Call(op, args, d.result)
    /\ trace' = d.trace
    /\ UNCHANGED <<configVars, runtimeVars, authVars, clientVars, handleVars, contentVars>>

ToolGetRepository ==
    \E repo \in CallRepos, resp \in Responses :
        Ran("get_repository", <<repo>>, get_repository(repo, resp))

ToolDeleteRepository ==
    \E repo \in CallRepos, resp \in Responses :
        Ran("delete_repository", <<repo>>, delete_repository(repo, resp))

ToolListLanguages ==
    \E repo \in CallRepos, resp \in Responses :
        Ran("list_languages", <<repo>>, list_languages(repo, resp))

ToolForkRepository ==
    \E source_owner \in TargetOwners \ {None}, source_repo \in TargetRepos \ {None},
       resp \in Responses :
        Ran("fork_repository", <<source_owner, source_repo>>,
            fork_repository(source_owner, source_repo, resp))

ToolListUserRepos ==
    \E resp \in Responses : Ran("list_user_repos", <<>>, list_user_repos(resp))

\* the caller takes the outcome; calls on the settings object and the
\* synchronous prefix of a handler run one at a time on the event loop
Respond ==
    /\ last.op # "idle"
    /\ last' = Idle
    /\ trace' = <<>>
    /\ UNCHANGED <<configVars, runtimeVars, authVars, clientVars, handleVars, contentVars>>

NextPolicy ==
    \/ GetOwnerRepo
    \/ IsRepoAllowed
    \/ SetDefaultRepo
    \/ ToolSetDefaultRepo
    \/ ToolGetRepository
    \/ ToolDeleteRepository
    \/ ToolListLanguages
    \/ ToolForkRepository
    \/ ToolListUserRepos
    \/ Respond

SpecPolicy == InitPolicy /\ [][NextPolicy]_vars

(***************************************************************************)
(* Inbound middleware (http_server.py)                                     *)
(*                                                                         *)
(* A header value is a sequence of bytes: an ASCII byte is written as its  *)
(* character, BadByte is a byte that is not valid UTF-8.                   *)
(***************************************************************************)

BadByte == "0xFF"

\* bytes.decode() succeeds
Decodable(b) == \A i \in 1..Len(b) : b[i] # BadByte

\* dict(headers).get(name, b""): the last header of that name wins
DictGet(headers, name) ==
    IF \E i \in 1..Len(headers) : headers[i][1] = name
    THEN headers[CHOOSE i \in 1..Len(headers) :
                    /\ headers[i][1] = name
                    /\ \A j \in (i + 1)..Len(headers) : headers[j][1] # name][2]
    ELSE <<>>

sBearer == <<"B", "e", "a", "r", "e", "r", " ">>

\* api_key after the two extraction steps, for decodable headers
ExtractKey(x_api_key, auth_header) ==
    IF x_api_key = <<>> /\ startswith(auth_header, sBearer)
    THEN SubSeq(auth_header, Len(sBearer) + 1, Len(auth_header))
    ELSE x_api_key

\* AuthMiddleware testing the secret before the scope type
AuthMiddleware_checks_every_scope(sc) ==
    IF ~Truthy(mcp_api_key)
    THEN "forward"
    ELSE IF ~Decodable(DictGet(sc.headers, "x-api-key"))
    THEN "UnicodeDecodeError"
    ELSE IF ~Decodable(DictGet(sc.headers, "authorization"))
    THEN "UnicodeDecodeError"
    ELSE IF ExtractKey(DictGet(sc.headers, "x-api-key"),
                       DictGet(sc.headers, "authorization")) # mcp_api_key
    THEN "401"
    ELSE "forward"

\* AuthMiddleware.__call__: "forward" (the wrapped application is awaited),
\* "401" (the JSON response is sent) or the exception raised
AuthMiddleware(sc) ==
    IF sc.type # "http"
    THEN "forward"
    ELSE IF ~Truthy(mcp_api_key)
    THEN "forward"
    ELSE IF ~Decodable(DictGet(sc.headers, "x-api-key"))
    THEN "UnicodeDecodeError"
    ELSE IF ~Decodable(DictGet(sc.headers, "authorization"))
    THEN "UnicodeDecodeError"
    ELSE IF ExtractKey(DictGet(sc.headers, "x-api-key"),
                       DictGet(sc.headers, "authorization")) # mcp_api_key
    THEN "401"
    ELSE "forward"

\* s.endswith(p)
endswith(s, p) == Len(s) >= Len(p) /\ SubSeq(s, Len(s) - Len(p) + 1, Len(s)) = p

sMcp == <<"/", "m", "c", "p">>
sEventStream == <<"t", "/", "e", "s">>

\* bytes.lower() of a header name
NameLower(k) == IF k = "Accept" THEN "accept" ELSE k

\* ForceSSEMiddleware that adds the header when there is none and leaves an
\* Accept header of the client as it is
ForceSSEMiddleware_inject_only(sc) ==
    IF sc.type = "http" /\ endswith(sc.path, sMcp) /\ sc.method = "GET"
    THEN [sc EXCEPT !.headers =
            sc.headers
            \o (IF \E i \in 1..Len(sc.headers) : NameLower(sc.headers[i][1]) = "accept"
                THEN <<>>
                ELSE << <<"accept", sEventStream>> >>)]
    ELSE sc

\* ForceSSEMiddleware.__call__: the scope handed to the wrapped application
ForceSSEMiddleware(sc) ==
    IF sc.type = "http" /\ endswith(sc.path, sMcp) /\ sc.method = "GET"
    THEN [sc EXCEPT !.headers =
            [i \in 1..Len(sc.headers) |->
                IF NameLower(sc.headers[i][1]) = "accept"
                THEN <<sc.headers[i][1], sEventStream>>
                ELSE sc.headers[i]]
            \o (IF \E i \in 1..Len(sc.headers) : NameLower(sc.headers[i][1]) = "accept"
                THEN <<>>
                ELSE << <<"accept", sEventStream>> >>)]
    ELSE sc

\* starlette CORSMiddleware.__call__: a preflight request is answered by
\* the middleware, every other scope is passed on
CORSMiddleware(sc) ==
    IF sc.type # "http"
    THEN "forward"
    ELSE IF ~\E i \in 1..Len(sc.headers) : sc.headers[i][1] = "origin"
    THEN "forward"
    ELSE IF /\ sc.method = "OPTIONS"
            /\ \E i \in 1..Len(sc.headers) :
                    sc.headers[i][1] = "access-control-request-method"
    THEN "preflight"
    ELSE "forward"

\* Starlette.add_middleware: user_middleware.insert(0, ...)
add_middleware(user_middleware, cls) == <<cls>> \o user_middleware

\* create_app: the user middleware, outermost first; the stack is built by
\* wrapping the router in reversed(user_middleware)
create_app ==
    add_middleware(
        add_middleware(
            add_middleware(<<>>, "AuthMiddleware"),
            "ForceSSEMiddleware"),
        "CORSMiddleware")

\* what one layer did with the scope it was called with
E(who, what, sc) == [who |-> who, what |-> what, scope |-> sc]

\* the request going down the layers, outermost first, to the mounted
\* MCP application
RECURSIVE Serve(_, _)
Serve(stack, sc) ==
    IF stack = <<>>
    THEN <<E("app", "served", sc)>>
    ELSE CASE Head(stack) = "AuthMiddleware" ->
                <<E("AuthMiddleware", AuthMiddleware(sc), sc)>>
                    \o (IF AuthMiddleware(sc) = "forward"
                        THEN Serve(Tail(stack), sc)
                        ELSE <<>>)
           [] Head(stack) = "ForceSSEMiddleware" ->
                <<E("ForceSSEMiddleware", "forward", sc)>>
                    \o Serve(Tail(stack), ForceSSEMiddleware(sc))
           [] Head(stack) = "CORSMiddleware" ->
                <<E("CORSMiddleware", CORSMiddleware(sc), sc)>>
                    \o (IF CORSMiddleware(sc) = "forward"
                        THEN Serve(Tail(stack), sc)
                        ELSE <<>>)

\* the most headers a request carries
MaxHeaders == 2

abc == <<"a", "b", "c">>
abd == <<"a", "b", "d">>

\* MCP_API_KEY: unset, empty, or a secret
Secrets == {None, <<>>, abc}

HeaderPool ==
    { <<"x-api-key", abc>>, <<"x-api-key", abd>>, <<"x-api-key", <<>>>>,
      <<"x-api-key", <<BadByte>>>>,
      <<"authorization", sBearer \o abc>>, <<"authorization", sBearer \o abd>>,
      <<"authorization", <<"b">> \o Tail(sBearer) \o abc>>,
      <<"authorization", <<BadByte>>>>,
      <<"accept", <<"*">>>>, <<"Accept", <<"*">>>>,
      <<"origin", <<"o">>>>, <<"access-control-request-method", <<"G">>>> }

HeaderLists == UNION {[1..n -> HeaderPool] : n \in 0..MaxHeaders}

Paths == {sMcp, sMcp \o <<"/">>, <<"/">>}

Scopes ==
    [type : {"http"}, method : {"GET", "POST", "OPTIONS"}, path : Paths,
     headers : HeaderLists]
    \cup [type : {"websocket"}, method : {"none"}, path : Paths, headers : HeaderLists]
    \cup [type : {"lifespan"}, method : {"none"}, path : {None}, headers : {<<>>}]

InitAuth ==
    /\ InitClientIdle
    /\ InitHandleIdle
    /\ InitContentsIdle
    /\ mcp_api_key \in Secrets
    /\ scope = NoScope
    /\ events = <<>>
    /\ gh_default_owner = None
    /\ gh_default_repo = None
    /\ gh_allowed_repos = <<>>
    /\ runtime_owner = None
    /\ runtime_repo = None
    /\ last = Idle
    /\ trace = <<>>

\* the server calls the application built by create_app with one scope
Request ==
    \E sc \in Scopes :
        /\ scope.type = "none"
        /\ scope' = sc
        /\ events' = Serve(create_app, sc)
        /\ UNCHANGED <<mcp_api_key, policyVars, clientVars, handleVars, contentVars>>

\* the call returns; the middleware keeps nothing between requests
Complete ==
    /\ scope.type # "none"
    /\ scope' = NoScope
    /\ events' = <<>>
    /\ UNCHANGED <<mcp_api_key, policyVars, clientVars, handleVars, contentVars>>

NextAuth ==
    \/ Request
    \/ Complete

SpecAuth == InitAuth /\ [][NextAuth]_vars

(***************************************************************************)
(* Transport client (client.py)                                            *)
(*                                                                         *)
(* A text is a sequence of string tokens.  A response body is its text     *)
(* together with what response.json() makes of it.                         *)
(***************************************************************************)

\* a JSON member that may be missing or of another type than expected
Absent == [tag |-> "absent", text |-> <<>>]
Str(t) == [tag |-> "str", text |-> t]
Number == [tag |-> "number", text |-> <<"5">>]

\* one element of an "errors" array: an object, with or without a message
\* member, or a bare string
ErrObj(message) == [tag |-> "dict", message |-> message]
ErrStr == [tag |-> "str", message |-> Absent]

\* the "errors" member: missing, an array, or null
NoErrors == [tag |-> "absent", items |-> <<>>]
ErrList(items) == [tag |-> "list", items |-> items]
ErrNull == [tag |-> "null", items |-> <<>>]

\* repr of a member, as it stands in the body text and in str(e)
MemberText(m) ==
    CASE m.tag = "absent" -> <<>>
      [] m.tag = "str" -> <<"'">> \o m.text \o <<"'">>
      [] m.tag = "number" -> m.text

\* str(e) of an element of "errors"
EntryText(e) ==
    IF e.tag = "str"
    THEN <<"'bare'">>
    ELSE <<"{">> \o (IF e.message.tag = "absent"
                     THEN <<"code: 1">>
                     ELSE <<"message: ">> \o MemberText(e.message)) \o <<"}">>

RECURSIVE Join(_, _)
\* sep.join(texts)
Join(texts, sep) ==
    IF texts = <<>> THEN <<>>
    ELSE IF Len(texts) = 1 THEN Head(texts)
    ELSE Head(texts) \o <<sep>> \o Join(Tail(texts), sep)

\* the text of a JSON object with these members
ObjectText(message, errors) ==
    <<"{">>
    \o (IF message.tag = "absent" THEN <<>> ELSE <<"message: ">> \o MemberText(message))
    \o (CASE errors.tag = "absent" -> <<>>
          [] errors.tag = "null" -> <<"errors: null">>
          [] errors.tag = "list" ->
                <<"errors: [">>
                \o Join([i \in 1..Len(errors.items) |-> EntryText(errors.items[i])], ", ")
                \o <<"]">>)
    \o <<"}">>

\* response bodies: kind is what response.json() returns ("invalid" when it
\* raises), text is response.text
Body(kind, text, message, errors) ==
    [kind |-> kind, text |-> text, message |-> message, errors |-> errors]

EmptyBody == Body("invalid", <<>>, Absent, NoErrors)
HtmlBody == Body("invalid", <<"<html>">>, Absent, NoErrors)
ArrayBody == Body("array", <<"[1]">>, Absent, NoErrors)
ScalarBody == Body("scalar", <<"5">>, Absent, NoErrors)
ObjectBody(message, errors) ==
    Body("object", ObjectText(message, errors), message, errors)

\* f"GitHub API ошибка: {response.status_code}"
GenericMessage(status_code) == <<"GitHub API error: ", ToString(status_code)>>

\* response.text or error_message
TextOr(body, error_message) == IF body.text # <<>> THEN body.text ELSE error_message

\* e.get("message", str(e)) for an object element
EntryMessage(e) == IF e.message.tag = "absent" THEN Str(EntryText(e)) ELSE e.message

\* the try block of the status >= 400 branch raises
ParseRaises(body) ==
    \/ body.kind \in {"invalid", "scalar"}
    \/ /\ body.kind = "object"
       /\ \/ body.errors.tag = "null"
          \/ /\ body.errors.tag = "list"
             /\ \/ \E i \in 1..Len(body.errors.items) :
                      \/ body.errors.items[i].tag # "dict"
                      \/ EntryMessage(body.errors.items[i]).tag # "str"
                \/ body.message.tag = "number"

\* error_message of the status >= 400 branch
ErrorMessage(status_code, body) ==
    IF ParseRaises(body)
    THEN TextOr(body, GenericMessage(status_code))
    ELSE IF body.kind # "object"
    THEN GenericMessage(status_code)
    ELSE LET m == IF body.message.tag = "absent"
                  THEN GenericMessage(status_code)
                  ELSE body.message.text
         IN  IF body.errors.tag = "absent"
             THEN m
             ELSE m \o <<" (">>
                    \o Join([i \in 1..Len(body.errors.items) |->
                                EntryMessage(body.errors.items[i]).text], ", ")
                    \o <<")">>

\* no value: the call raised
NoValue == Body("none", <<>>, Absent, NoErrors)

\* {"success": True}
SuccessMarker == Body("object", <<"{", "success: true", "}">>, Absent, NoErrors)

\* {}
EmptyDict == ObjectBody(Absent, NoErrors)

\* status_code of a GitHubError raised without one
NoStatus == "None"

\* raise GitHubError(message, status_code); the status code is kept as
\* its decimal text so that it compares with NoStatus
GitHubError(message, status_code) ==
    [exc |-> "GitHubError", message |-> message, status_code |-> status_code,
     value |-> NoValue]

\* return value
Result(value) ==
    [exc |-> "none", message |-> <<>>, status_code |-> NoStatus, value |-> value]

\* an exception that no except clause of _request catches
Uncaught(e) ==
    [exc |-> e, message |-> <<>>, status_code |-> NoStatus, value |-> NoValue]

\* httpx.TimeoutException and its subclasses
TimeoutExceptions == {"ConnectTimeout", "ReadTimeout", "WriteTimeout", "PoolTimeout"}

\* the other subclasses of httpx.RequestError
OtherRequestErrors == {"ConnectError", "ReadError", "RemoteProtocolError"}

\* the message of a transport exception
ExcText(e) == <<e>>

\* the status line handling that ignores the errors member
ResponseOutcome_message_only(status_code, body) ==
    IF status_code >= 400
    THEN GitHubError(IF body.kind = "object" /\ body.message.tag = "str"
                     THEN body.message.text
                     ELSE TextOr(body, GenericMessage(status_code)),
                     ToString(status_code))
    ELSE IF status_code = 204
    THEN Result(SuccessMarker)
    ELSE IF body.text # <<>>
    THEN IF body.kind = "invalid" THEN Uncaught("JSONDecodeError") ELSE Result(body)
    ELSE Result(EmptyDict)

\* the body of the try block once the response has arrived
ResponseOutcome(status_code, body) ==
    IF status_code >= 400
    THEN GitHubError(ErrorMessage(status_code, body), ToString(status_code))
    ELSE IF status_code = 204
    THEN Result(SuccessMarker)
    ELSE IF body.text # <<>>
    THEN IF body.kind = "invalid" THEN Uncaught("JSONDecodeError") ELSE Result(body)
    ELSE Result(EmptyDict)

\* _request with the except clauses in the other order: RequestError,
\* the base class, catches the timeouts too
request_base_class_first(t) ==
    IF t.kind = "response"
    THEN ResponseOutcome(t.status_code, t.body)
    ELSE IF t.exc \in TimeoutExceptions \cup OtherRequestErrors
    THEN GitHubError(<<"Connection: ">> \o ExcText(t.exc), NoStatus)
    ELSE Uncaught(t.exc)

\* GitHubClient._request after _get_client, for what the transport gave
request(t) ==
    IF t.kind = "response"
    THEN ResponseOutcome(t.status_code, t.body)
    ELSE IF t.exc \in TimeoutExceptions
    THEN GitHubError(<<"Timeout: ">> \o ExcText(t.exc), NoStatus)
    ELSE IF t.exc \in OtherRequestErrors
    THEN GitHubError(<<"Connection: ">> \o ExcText(t.exc), NoStatus)
    ELSE Uncaught(t.exc)

\* GitHubClient._get_client: the handle after the call
get_client(c) == IF c = "None" \/ c = "closed" THEN "open" ELSE c

\* the longest errors array of a response body
MaxErrors == 2

ErrorEntries ==
    { ErrObj(Str(<<"name is required">>)), ErrObj(Str(<<"too long">>)),
      ErrObj(Absent), ErrObj(Number), ErrStr }

Messages == {Absent, Str(<<"Validation failed">>), Number}

ErrorsMembers ==
    {NoErrors, ErrNull}
    \cup {ErrList(items) : items \in UNION {[1..n -> ErrorEntries] : n \in 0..MaxErrors}}

Bodies ==
    {EmptyBody, HtmlBody, ArrayBody, ScalarBody}
    \cup {ObjectBody(m, e) : m \in Messages, e \in ErrorsMembers}

StatusCodes == {200, 204, 302, 400, 422, 500}

Transports ==
    [kind : {"response"}, status_code : StatusCodes, body : Bodies, exc : {"none"}]
    \cup [kind : {"exception"}, status_code : {0}, body : {EmptyBody},
          exc : TimeoutExceptions \cup OtherRequestErrors \cup {"RuntimeError"}]

InitClient ==
    /\ InitClientIdle
    /\ InitHandleIdle
    /\ InitContentsIdle
    /\ mcp_api_key = None
    /\ scope = NoScope
    /\ events = <<>>
    /\ gh_default_owner = None
    /\ gh_default_repo = None
    /\ gh_allowed_repos = <<>>
    /\ runtime_owner = None
    /\ runtime_repo = None
    /\ last = Idle
    /\ trace = <<>>

\* what the network would give a second request of the same call
Again ==
    { [kind |-> "response", status_code |-> 200, body |-> EmptyBody, exc |-> "none"],
      [kind |-> "exception", status_code |-> 0, body |-> EmptyBody, exc |-> "ReadTimeout"] }

\* _request sending again after a timeout, a connection error or status >= 500
sent_retry_once(t, u) ==
    IF t.kind = "exception" \/ t.status_code >= 500 THEN <<t, u>> ELSE <<t>>

\* the client.request(...) calls one _request makes, given what the network
\* gives the first (t) and would give a second (u): the await at lines
\* 94-99 is in no loop and no except clause sends again
sent(t, u) == <<t>>

\* one _request call: the handle is obtained, the request made, the
\* response or the exception turned into the outcome
RequestCall ==
    \E t \in Transports, u \in Again :
        /\ transport.kind = "none"
        /\ client' = get_client(client)
        /\ attempts' = sent(t, u)
        /\ transport' = attempts'[Len(attempts')]
        /\ outcome' = request(transport')
        /\ UNCHANGED <<policyVars, authVars, handleVars, contentVars>>

\* the caller has the outcome
Return ==
    /\ transport.kind # "none"
    /\ transport' = NoTransport
    /\ outcome' = NoOutcome
    /\ attempts' = <<>>
    /\ UNCHANGED <<client, policyVars, authVars, handleVars, contentVars>>

\* GitHubClient.close between calls
Close ==
    /\ transport.kind = "none"
    /\ client' = IF client = "open" THEN "None" ELSE client
    /\ UNCHANGED <<transport, outcome, attempts, policyVars, authVars, handleVars, contentVars>>

NextClient ==
    \/ RequestCall
    \/ Return
    \/ Close

SpecClient == InitClient /\ [][NextClient]_vars

(***************************************************************************)
(* The connection handle under concurrent calls and closes                 *)
(***************************************************************************)

\* the most handles created in one run
MaxHandles == 3

\* httpx.AsyncClient(...): a new handle, open, its transport not released
AsyncClient(c) == [owner |-> c, closed |-> FALSE, releases |-> 0]

\* httpx.AsyncClient.is_closed
is_closed(r) == handles[r].closed

\* httpx.AsyncClient.aclose up to its first await: the state becomes
\* closed, and the transport is released unless the state was closed
aclose(h) ==
    IF h.closed THEN h ELSE [h EXCEPT !.closed = TRUE, !.releases = @ + 1]

\* _get_client testing only for None, not for a closed handle
creates_only_when_none(c) == clients[c] = 0

\* GitHubClient._get_client: whether the call creates a handle
creates(c) == clients[c] = 0 \/ is_closed(clients[c])

\* close() without the test of self._client: is_closed is read from None
close_no_none_test(r) ==
    IF r = 0 THEN "AttributeError"
    ELSE IF ~is_closed(r) THEN "aclose" ELSE "return"

\* GitHubClient.close: what the call does with the reference it finds
close(r) ==
    IF r # 0 /\ ~is_closed(r) THEN "aclose" ELSE "return"

\* _request up to `await client.request(...)`: _get_client has no await,
\* so the test, the creation and the assignment are one step
RequestBegin(t, c) ==
    /\ tasks[t].pc = "idle"
    /\ IF creates(c)
       THEN /\ Len(handles) < MaxHandles
            /\ handles' = Append(handles, AsyncClient(c))
            /\ clients' = [clients EXCEPT ![c] = Len(handles) + 1]
       ELSE UNCHANGED <<clients, handles>>
    /\ tasks' = [tasks EXCEPT ![t] =
          [pc |-> "request", op |-> "request", client |-> c,
           h |-> clients'[c], exc |-> "none"]]

\* the awaited request is over: _request returns or raises
RequestEnd(t) ==
    /\ tasks[t].pc = "request"
    /\ \E e \in {"none", "GitHubError"} :
           tasks' = [tasks EXCEPT ![t].pc = "returned", ![t].exc = e]
    /\ UNCHANGED <<clients, handles>>

\* close() up to the await inside aclose, or to its end when there is
\* nothing to close
CloseBegin(t, c) ==
    /\ tasks[t].pc = "idle"
    /\ LET r == clients[c]
           branch == close(r)
       IN  IF branch = "aclose"
           THEN /\ handles' = [handles EXCEPT ![r] = aclose(@)]
                /\ tasks' = [tasks EXCEPT ![t] =
                      [pc |-> "aclose", op |-> "close", client |-> c,
                       h |-> r, exc |-> "none"]]
           ELSE /\ handles' = handles
                /\ tasks' = [tasks EXCEPT ![t] =
                      [pc |-> "returned", op |-> "close", client |-> c,
                       h |-> 0,
                       exc |-> IF branch = "return" THEN "none" ELSE branch]]
    /\ UNCHANGED clients

\* close() resumed after `await self._client.aclose()`: line 67
CloseEnd(t) ==
    /\ tasks[t].pc = "aclose"
    /\ clients' = [clients EXCEPT ![tasks[t].client] = 0]
    /\ tasks' = [tasks EXCEPT ![t].pc = "returned"]
    /\ UNCHANGED handles

\* the caller has the result of the call
TaskReturn(t) ==
    /\ tasks[t].pc = "returned"
    /\ tasks' = [tasks EXCEPT ![t] = IdleTask]
    /\ UNCHANGED <<clients, handles>>

others == <<policyVars, authVars, clientVars, contentVars>>

\* both client objects new, everything else of the program at rest
InitHandle == InitClient

\* any coroutine calls _request on the client of the tools
Call_request ==
    \E t \in 1..MaxTasks :
        RequestBegin(t, "_client") /\ UNCHANGED <<phase, others>>

Resume_request ==
    \E t \in 1..MaxTasks : RequestEnd(t) /\ UNCHANGED <<phase, others>>

\* any coroutine calls close() on that client
Call_close ==
    \E t \in 1..MaxTasks :
        CloseBegin(t, "_client") /\ UNCHANGED <<phase, others>>

Resume_close ==
    \E t \in 1..MaxTasks : CloseEnd(t) /\ UNCHANGED <<phase, others>>

Returned ==
    \E t \in 1..MaxTasks : TaskReturn(t) /\ UNCHANGED <<phase, others>>

NextHandle ==
    \/ Call_request
    \/ Resume_request
    \/ Call_close
    \/ Resume_close
    \/ Returned

SpecHandle == InitHandle /\ [][NextHandle]_vars

(***************************************************************************)
(* The server from start to stop: lifespan and the tool calls              *)
(***************************************************************************)

\* the coroutine that runs lifespan; the other coroutines run tool and
\* resource calls
LifespanTask == 1
ToolTasks == 2..MaxTasks

InitServer == InitClient

\* lifespan up to the await in client.get_authenticated_user()
Lifespan_check ==
    /\ phase = "startup"
    /\ RequestBegin(LifespanTask, "client")
    /\ phase' = "checking"
    /\ UNCHANGED others

\* the check is over, passed or not (its exceptions are logged), and
\* lifespan yields: the server serves
Lifespan_yield ==
    /\ phase = "checking"
    /\ RequestEnd(LifespanTask)
    /\ phase' = "serving"
    /\ UNCHANGED others

\* a tool or the resource calls the module-level _client
Tool_call ==
    /\ phase = "serving"
    /\ \E t \in ToolTasks : RequestBegin(t, "_client")
    /\ UNCHANGED <<phase, others>>

Tool_resume ==
    /\ \E t \in ToolTasks : RequestEnd(t)
    /\ UNCHANGED <<phase, others>>

\* the finally clause of lifespan up to the await inside client.close()
Lifespan_close ==
    /\ phase = "serving"
    /\ CloseBegin(LifespanTask, "client")
    /\ phase' = "closing"
    /\ UNCHANGED others

\* client.close() is over and lifespan ends
Lifespan_exit ==
    /\ phase = "closing"
    /\ CloseEnd(LifespanTask)
    /\ phase' = "stopped"
    /\ UNCHANGED others

NextServer ==
    \/ Lifespan_check
    \/ Lifespan_yield
    \/ Tool_call
    \/ Tool_resume
    \/ Returned
    \/ Lifespan_close
    \/ Lifespan_exit

SpecServer == InitServer /\ [][NextServer]_vars

(***************************************************************************)
(* get_contents: the base64 content of a file (client.py)                  *)
(***************************************************************************)

\* the longest content text of a payload
MaxContent == 4

\* the value of a character of the base64 alphabet; every other character
\* is outside the alphabet
B64Value ==
    [c \in {"Q", "Y", "k", "w", "6", "/"} |->
        CASE c = "Q" -> 16 [] c = "Y" -> 24 [] c = "k" -> 36
          [] c = "w" -> 48 [] c = "6" -> 58 [] c = "/" -> 63]

Bytes(b) == [exc |-> "none", bytes |-> b]
Text(t) == [exc |-> "none", text |-> t]

\* binascii.a2b_base64 in non-strict mode: characters outside the alphabet
\* are skipped, a complete pad ends the input, an incomplete quad is an error
RECURSIVE a2b_base64(_, _, _, _, _)
a2b_base64(s, quad_pos, leftchar, pads, out) ==
    IF s = <<>>
    THEN IF quad_pos # 0 THEN [exc |-> "binascii.Error", bytes |-> <<>>] ELSE Bytes(out)
    ELSE LET ch == Head(s)
             rest == Tail(s)
         IN  IF ch = "="
             THEN IF quad_pos >= 2
                  THEN IF quad_pos + pads + 1 >= 4
                       THEN Bytes(out)
                       ELSE a2b_base64(rest, quad_pos, leftchar, pads + 1, out)
                  ELSE a2b_base64(rest, quad_pos, leftchar, pads, out)
             ELSE IF ch \notin DOMAIN B64Value
             THEN a2b_base64(rest, quad_pos, leftchar, pads, out)
             ELSE LET v == B64Value[ch]
                  IN  CASE quad_pos = 0 -> a2b_base64(rest, 1, v, 0, out)
                        [] quad_pos = 1 ->
                             a2b_base64(rest, 2, v % 16, 0,
                                        Append(out, (leftchar * 4) + (v \div 16)))
                        [] quad_pos = 2 ->
                             a2b_base64(rest, 3, v % 4, 0,
                                        Append(out, (leftchar * 16) + (v \div 4)))
                        [] quad_pos = 3 ->
                             a2b_base64(rest, 0, 0, 0, Append(out, (leftchar * 64) + v))

\* base64.b64decode(content): None is no bytes-like object
b64decode(content) ==
    IF content = None
    THEN [exc |-> "TypeError", bytes |-> <<>>]
    ELSE a2b_base64(content, 0, 0, 0, <<>>)

\* the continuation bytes after lead byte c: how many, and the range of
\* the first one
Continuation(c) ==
    IF c >= 194 /\ c <= 223 THEN [need |-> 1, lo |-> 128, hi |-> 191, bits |-> c % 32]
    ELSE IF c >= 224 /\ c <= 239
    THEN [need |-> 2, lo |-> IF c = 224 THEN 160 ELSE 128,
          hi |-> IF c = 237 THEN 159 ELSE 191, bits |-> c % 16]
    ELSE IF c >= 240 /\ c <= 244
    THEN [need |-> 3, lo |-> IF c = 240 THEN 144 ELSE 128,
          hi |-> IF c = 244 THEN 143 ELSE 191, bits |-> c % 8]
    ELSE [need |-> 0, lo |-> 0, hi |-> 0, bits |-> 0]

\* the code point of lead bits and continuation bytes
RECURSIVE CodePoint(_, _)
CodePoint(bits, cont) ==
    IF cont = <<>> THEN bits ELSE CodePoint(bits * 64 + (Head(cont) % 64), Tail(cont))

\* bytes.decode("utf-8"): the text as the sequence of its code points
RECURSIVE utf8_decode(_, _)
utf8_decode(b, out) ==
    IF b = <<>>
    THEN Text(out)
    ELSE IF Head(b) < 128
    THEN utf8_decode(Tail(b), Append(out, ToString(Head(b))))
    ELSE LET k == Continuation(Head(b))
         IN  IF \/ k.need = 0
                \/ Len(b) < k.need + 1
                \/ b[2] < k.lo \/ b[2] > k.hi
                \/ \E i \in 3..(k.need + 1) : b[i] < 128 \/ b[i] > 191
             THEN [exc |-> "UnicodeDecodeError", text |-> <<>>]
             ELSE utf8_decode(SubSeq(b, k.need + 2, Len(b)),
                      Append(out, ToString(CodePoint(k.bits, SubSeq(b, 2, k.need + 1)))))

\* get_contents assigning the utf-8 tag before the content is decoded
decode_content_tag_first(result) ==
    IF result.shape = "dict" /\ result.encoding = "base64" /\ result.has_content
    THEN LET b == b64decode(result.content)
             t == utf8_decode(b.bytes, <<>>)
         IN  IF b.exc # "none" \/ t.exc # "none"
             THEN [result EXCEPT !.encoding = "utf-8"]
             ELSE [result EXCEPT !.content = t.text, !.encoding = "utf-8"]
    ELSE result

\* get_contents after _request: lines 264-275
decode_content(result) ==
    IF result.shape = "dict" /\ result.encoding = "base64" /\ result.has_content
    THEN LET b == b64decode(result.content)
             t == utf8_decode(b.bytes, <<>>)
         IN  IF b.exc # "none" \/ t.exc # "none"
             THEN result
             ELSE [result EXCEPT !.content = t.text, !.encoding = "utf-8"]
    ELSE result

Base64Chars == {"Q", "Y", "k", "w", "6", "/", "=", "\n"}

ContentTexts == UNION {[1..n -> Base64Chars] : n \in 0..MaxContent}

\* what _request returns for /repos/{owner}/{repo}/contents/{path}: a file
\* object, with or without the encoding and content members, or the list
\* of a directory
Payloads ==
    [shape : {"dict"}, encoding : {"base64"}, has_content : {TRUE},
     content : ContentTexts \cup {None}]
    \cup [shape : {"dict"}, encoding : {"<absent>", "base64", "none"},
          has_content : BOOLEAN, content : {<<>>, <<"Y", "Q", "=", "=">>}]
    \cup [shape : {"list"}, encoding : {"<absent>"}, has_content : {FALSE},
          content : {<<>>}]

InitContents == InitClient

GetContents ==
    \E result \in Payloads :
        /\ payload.shape = "none"
        /\ payload' = result
        /\ contents' = decode_content(result)
        /\ UNCHANGED <<policyVars, authVars, clientVars, handleVars>>

\* the caller has the result
ContentsReturn ==
    /\ payload.shape # "none"
    /\ payload' = NoPayload
    /\ contents' = NoPayload
    /\ UNCHANGED <<policyVars, authVars, clientVars, handleVars>>

NextContents ==
    \/ GetContents
    \/ ContentsReturn

SpecContents == InitContents /\ [][NextContents]_vars

(***************************************************************************)
(* Properties of the access policy                                         *)
(***************************************************************************)

\* the value a call-time argument contributes, read literally: the argument
\* itself unless it is missing, empty or exactly the sentinel
Literal(c, sentinel, r, d) ==
    IF Truthy(c) /\ c # sentinel THEN c ELSE IF Truthy(r) THEN r ELSE d

\* the value a call-time argument contributes once trimmed, with the
\* sentinel matched in any letter case
Trimmed(c, sentinel, r, d) ==
    IF c # None /\ strip(c) # <<>> /\ lower(strip(c)) # sentinel
    THEN strip(c)
    ELSE IF Truthy(r) THEN r ELSE d

Resolved == last.op = "get_owner_repo" /\ last.result.exc = "none"

\* C1 as stated: whenever get_owner_repo returns, the owner is the call-time
\* owner C_o if C_o is non-empty and not "user", else the runtime owner if
\* set, else the default owner; the same for the resource with "repo".
C1_PrecedenceLiteral ==
    Resolved =>
        /\ last.result.value[1] =
              Literal(last.args[1], sUser, runtime_owner, gh_default_owner)
        /\ last.result.value[2] =
              Literal(last.args[2], sRepo, runtime_repo, gh_default_repo)

\* C1 amended: whenever get_owner_repo returns, the owner is the trimmed
\* call-time owner if that is non-empty and is not "user" in any letter case,
\* else the runtime owner if set and non-empty, else the default owner; the
\* same, independently, for the resource with "repo".
C1_PrecedenceTrimmed ==
    Resolved =>
        /\ last.result.value[1] =
              Trimmed(last.args[1], sUser, runtime_owner, gh_default_owner)
        /\ last.result.value[2] =
              Trimmed(last.args[2], sRepo, runtime_repo, gh_default_repo)

\* a padded sentinel owner falls through to a runtime owner that differs
\* from the default, while a padded explicit resource beats both
C1_Witness ==
    /\ Resolved
    /\ Truthy(runtime_owner) /\ Truthy(gh_default_owner)
    /\ runtime_owner # gh_default_owner
    /\ Truthy(runtime_repo) /\ Truthy(gh_default_repo)
    /\ last.args[1] # None /\ last.args[1] # sUser
    /\ lower(strip(last.args[1])) = sUser
    /\ last.result.value[1] = runtime_owner
    /\ last.args[2] # None /\ last.args[2] # strip(last.args[2])
    /\ last.result.value[2] = strip(last.args[2])
    /\ last.result.value[2] # runtime_repo

\* the steps of the running operation that are transport calls to one
\* specific (owner, resource)
Targeted(i) ==
    /\ trace[i].kind \in {"GET", "POST", "DELETE"}
    /\ trace[i].owner # None

\* C2: a transport call to one specific (owner, resource) is issued only
\* after get_owner_repo returned that target and is_repo_allowed accepted
\* it, in that order; no transport call goes to a target that
\* is_repo_allowed rejects, and an operation that was denied issued none.
C2_TransportOnlyAfterCheck ==
    /\ \A i \in 1..Len(trace) :
          Targeted(i) =>
            /\ \E j \in 1..Len(trace), k \in 1..Len(trace) :
                  /\ j < k /\ k < i
                  /\ trace[j] = Ev("get_owner_repo", trace[i].owner, trace[i].repo, TRUE)
                  /\ trace[k] = Ev("is_repo_allowed", trace[i].owner, trace[i].repo, TRUE)
            /\ is_repo_allowed(trace[i].owner, trace[i].repo)
    /\ (\E k \in 1..Len(trace) :
            trace[k].kind = "is_repo_allowed" /\ ~trace[k].value)
          => /\ last.result = Returns("denied")
             /\ \A i \in 1..Len(trace) : ~Targeted(i)

SetFailed ==
    /\ last.op \in {"set_default_repo", "tool_set_default_repo"}
    /\ last.result.exc = "ValueError"

\* C3: a set_default_repo call that fails the allow-list check leaves the
\* runtime owner and the runtime resource as they were before the call.
C3_FailedSetLeavesRuntime ==
    [][(last.op = "idle" /\ SetFailed') => UNCHANGED runtimeVars]_vars

\* a refused call made after an earlier call had set both fields to
\* other values
C3_Witness ==
    /\ last.op = "set_default_repo"
    /\ SetFailed
    /\ Truthy(runtime_owner) /\ Truthy(runtime_repo)
    /\ last.args[1] # runtime_owner
    /\ last.args[2] # runtime_repo

Asked == last.op = "is_repo_allowed"

HasWildcard(owner) ==
    \E i \in 1..Len(allowed_repos_list) :
        allowed_repos_list[i] = <<owner, None>>

Listed(owner) ==
    \E i \in 1..Len(allowed_repos_list) : allowed_repos_list[i][1] = owner

\* C4: with a wildcard entry for an owner in the allow-list,
\* is_repo_allowed is true for that owner and every resource, and false
\* for every owner that appears in no entry.
C4_Wildcard ==
    Asked =>
        /\ HasWildcard(last.args[1]) => last.result.value = TRUE
        /\ ((\E i \in 1..Len(allowed_repos_list) : allowed_repos_list[i][2] = None)
            /\ ~Listed(last.args[1]))
              => last.result.value = FALSE

\* a wildcard owner asked about a resource no entry names
C4_Witness ==
    /\ Asked
    /\ HasWildcard(last.args[1])
    /\ \A i \in 1..Len(allowed_repos_list) : allowed_repos_list[i][2] # last.args[2]
    /\ last.args[2] # None
    /\ last.result.value = TRUE

\* C5: with an empty allow-list is_repo_allowed is true for every owner
\* and every resource, an empty or unset resource included.
C5_EmptyAllowsAll ==
    (Asked /\ allowed_repos_list = <<>>) => last.result.value = TRUE

\* an unset owner and an empty resource accepted under an empty allow-list
C5_Witness ==
    /\ Asked
    /\ allowed_repos_list = <<>>
    /\ ~Truthy(last.args[1])
    /\ ~Truthy(last.args[2])
    /\ last.result.value = TRUE

Asked_get_owner_repo == last.op = "get_owner_repo"

\* C13: get_owner_repo raises the configuration error exactly when the
\* owner left after call-time value, runtime override and default is
\* empty; an empty resource never makes it raise, the owner is returned
\* with the empty resource.
C13_RaisesIffNoOwner ==
    Asked_get_owner_repo =>
        /\ last.result.exc = "ValueError"
              <=> ~Truthy(Trimmed(last.args[1], sUser, runtime_owner, gh_default_owner))
        /\ last.result.exc \in {"none", "ValueError"}
        /\ last.result.exc = "none" =>
              /\ last.result.value[1] =
                    Trimmed(last.args[1], sUser, runtime_owner, gh_default_owner)
              /\ last.result.value[2] =
                    Trimmed(last.args[2], sRepo, runtime_repo, gh_default_repo)

\* a call that returns an owner with no resource at all
C13_Witness ==
    /\ Asked_get_owner_repo
    /\ last.result.exc = "none"
    /\ Truthy(last.result.value[1])
    /\ ~Truthy(last.result.value[2])
    /\ ~Truthy(runtime_repo) /\ ~Truthy(gh_default_repo)

\* C17: the set-default-repository operation asked for a target outside
\* the allow-list gives its caller a denial value; nothing is raised past
\* the operation.
C17_DenialIsAValue ==
    last.op = "tool_set_default_repo" => last.result.exc = "none"

\* C18: a successful set_default_repo changes the runtime owner and the
\* runtime resource in one step of the event loop: whenever either field
\* changes, both take the values of that call, so no other call runs
\* between the two assignments.
C18_BothFieldsInOneStep ==
    [][(runtimeVars' # runtimeVars) =>
          /\ last'.op \in {"set_default_repo", "tool_set_default_repo"}
          /\ last'.result.exc = "none"
          /\ runtime_owner' =
                (IF last'.op = "set_default_repo"
                 THEN last'.args[1] ELSE gh_default_owner)
          /\ runtime_repo' = last'.args[Len(last'.args)]]_vars

\* get_owner_repo with no call-time values, run after an override that
\* replaced an earlier override in both fields, returns the new pair
C18_Witness ==
    /\ Asked_get_owner_repo
    /\ last.args = <<None, None>>
    /\ last.result.exc = "none"
    /\ last.result.value = <<runtime_owner, runtime_repo>>
    /\ Truthy(runtime_owner) /\ Truthy(runtime_repo)
    /\ runtime_owner # gh_default_owner
    /\ runtime_repo # gh_default_repo

(***************************************************************************)
(* Properties of the inbound middleware                                    *)
(***************************************************************************)

\* the calls of AuthMiddleware made for the request being served
AuthCalls == {i \in 1..Len(events) : events[i].who = "AuthMiddleware"}

\* the credential a request carries: the X-API-Key value, or the token of
\* Authorization: Bearer when X-API-Key is absent or empty
Credential(headers) ==
    ExtractKey(DictGet(headers, "x-api-key"), DictGet(headers, "authorization"))

\* C6: with a secret configured, AuthMiddleware awaits the wrapped
\* application for an HTTP request only if the credential equals the
\* secret, and otherwise sends the 401 response; with no secret configured
\* every request is forwarded.
C6_GateOr401 ==
    \A i \in AuthCalls :
        events[i].scope.type = "http" =>
            IF Truthy(mcp_api_key)
            THEN /\ events[i].what = "forward"
                    <=> Credential(events[i].scope.headers) = mcp_api_key
                 /\ events[i].what # "forward" => events[i].what = "401"
            ELSE events[i].what = "forward"

\* the values of the headers of one name, in order
Values(headers, name) ==
    {headers[i][2] : i \in {j \in 1..Len(headers) : headers[j][1] = name}}

\* C7: with secret S, a request with X-API-Key = S passes; a request with
\* no X-API-Key and Authorization: Bearer S passes; a request with a wrong
\* non-empty X-API-Key gets 401, with or without a correct
\* Authorization: Bearer S.
C7_KeyHeaderPrecedence ==
    \A i \in AuthCalls :
        LET h == events[i].scope.headers
            keys == Values(h, "x-api-key")
            auths == Values(h, "authorization")
        IN  (events[i].scope.type = "http" /\ Truthy(mcp_api_key)) =>
                /\ keys = {mcp_api_key} => events[i].what = "forward"
                /\ (keys = {} /\ auths = {sBearer \o mcp_api_key})
                      => events[i].what = "forward"
                /\ (/\ Cardinality(keys) = 1
                    /\ <<>> \notin keys
                    /\ mcp_api_key \notin keys
                    /\ auths \in {{}, {sBearer \o mcp_api_key}})
                      => events[i].what = "401"

\* C8: authentication runs before the Accept normalisation, so a request
\* that AuthMiddleware rejects was never handled by ForceSSEMiddleware and
\* never reaches the mounted application.
C8_AuthBeforeForceSSE ==
    \A i \in AuthCalls :
        Truthy(mcp_api_key) =>
        /\ \A j \in 1..(i - 1) : events[j].who # "ForceSSEMiddleware"
        /\ events[i].what # "forward" =>
              \A j \in 1..Len(events) :
                  events[j].who \notin {"ForceSSEMiddleware", "app"}

(***************************************************************************)
(* Properties of the transport client                                      *)
(***************************************************************************)

Responded == transport.kind = "response"

\* the body is an object with a text message and an errors array whose
\* elements are objects with a text message
MessageAndErrors(body) ==
    /\ body.kind = "object"
    /\ body.message.tag = "str"
    /\ body.errors.tag = "list"
    /\ \A i \in 1..Len(body.errors.items) :
          /\ body.errors.items[i].tag = "dict"
          /\ body.errors.items[i].message.tag = "str"

\* C9: for a response with status >= 400 whose body is an object with a
\* message and an errors list, _request raises GitHubError with the status
\* of the response and the message followed by the errors' messages,
\* comma-joined, in parentheses.
C9_ComposedMessage ==
    (/\ Responded
     /\ transport.status_code >= 400
     /\ MessageAndErrors(transport.body)) =>
        /\ outcome.exc = "GitHubError"
        /\ outcome.status_code = ToString(transport.status_code)
        /\ outcome.message =
              transport.body.message.text
              \o <<" (">>
              \o Join([i \in 1..Len(transport.body.errors.items) |->
                          transport.body.errors.items[i].message.text], ", ")
              \o <<")">>

\* a 422 whose errors array has two elements with different messages
C9_Witness ==
    /\ Responded
    /\ transport.status_code = 422
    /\ MessageAndErrors(transport.body)
    /\ Len(transport.body.errors.items) = 2
    /\ transport.body.errors.items[1] # transport.body.errors.items[2]
    /\ outcome.exc = "GitHubError"
    /\ outcome.message =
          <<"Validation failed", " (">>
          \o transport.body.errors.items[1].message.text
          \o <<", ">>
          \o transport.body.errors.items[2].message.text
          \o <<")">>

\* C10: a call whose response has a status below 400 never fails: 204
\* gives the success marker, any other status the parsed payload when the
\* body is not empty and the empty structured value when it is.
C10_SuccessNeverFails ==
    (Responded /\ transport.status_code < 400) =>
        /\ outcome.exc = "none"
        /\ outcome.value =
              IF transport.status_code = 204 THEN SuccessMarker
              ELSE IF transport.body.text # <<>> THEN transport.body
              ELSE EmptyDict

\* the text begins with the given tokens
BeginsWith(text, prefix) ==
    Len(text) >= Len(prefix) /\ SubSeq(text, 1, Len(prefix)) = prefix

Failed == transport.kind = "exception"

\* C11: a transport timeout is raised as the timeout GitHubError and never
\* as the connection one nor as an unclassified exception; every other
\* connection failure (DNS, refused, reset) is raised as the connection
\* GitHubError.
C11_TimeoutBeforeConnection ==
    Failed =>
        /\ transport.exc \in TimeoutExceptions =>
              /\ outcome.exc = "GitHubError"
              /\ BeginsWith(outcome.message, <<"Timeout: ">>)
        /\ transport.exc \in {"ConnectError", "ReadError"} =>
              /\ outcome.exc = "GitHubError"
              /\ BeginsWith(outcome.message, <<"Connection: ">>)

\* a read timeout, an instance of a subclass of the connection error base
C11_Witness ==
    /\ Failed
    /\ transport.exc = "ReadTimeout"
    /\ outcome = GitHubError(<<"Timeout: ", "ReadTimeout">>, NoStatus)

\* C15: every failure of _request reaches the caller as a GitHubError; no
\* response and no transport condition makes it raise anything else.
C15_EveryFailureClassified ==
    (\/ Responded
     \/ Failed /\ transport.exc \in TimeoutExceptions \cup OtherRequestErrors)
        => outcome.exc \in {"none", "GitHubError"}

\* C16: for a status >= 400 whose body cannot be parsed, or parses but has
\* no message member, the message is the text of the body, and the
\* generic status message only when the body is empty.
C16_RawTextFallback ==
    (/\ Responded
     /\ transport.status_code >= 400
     /\ \/ transport.body.kind = "invalid"
        \/ transport.body.message.tag = "absent") =>
        /\ outcome.exc = "GitHubError"
        /\ outcome.message =
              IF transport.body.text # <<>>
              THEN transport.body.text
              ELSE GenericMessage(transport.status_code)

(***************************************************************************)
(* Properties of the connection handle                                     *)
(***************************************************************************)

Tasks == 1..MaxTasks

\* in this step task t calls the operation op
Calls(t, op) == tasks[t].pc = "idle" /\ tasks'[t].op = op

\* the handles of client c that are open
Open(c) == {i \in DOMAIN handles : handles[i].owner = c /\ ~handles[i].closed}

\* C12: close() is idempotent: whatever calls and closes came before, a
\* close() raises nothing and the transport of a handle is released at
\* most once; a close() that finds no handle, or a handle already closed,
\* changes nothing.
C12_CloseIdempotent ==
    [][\A t \in Tasks : Calls(t, "close") =>
          LET c == tasks'[t].client
          IN  /\ tasks'[t].exc = "none"
              /\ \A i \in DOMAIN handles' : handles'[i].releases <= 1
              /\ (clients[c] = 0 \/ is_closed(clients[c])) =>
                    /\ handles' = handles
                    /\ clients' = clients
                    /\ tasks'[t].pc = "returned"]_vars

\* a close() that returned at once while another close() of the same
\* client is still suspended in aclose, the handle released once
C12_Witness ==
    \E t, u \in Tasks :
        /\ tasks[t].op = "close" /\ tasks[t].pc = "returned" /\ tasks[t].h = 0
        /\ tasks[u].pc = "aclose" /\ tasks[u].client = tasks[t].client
        /\ handles[tasks[u].h].releases = 1

\* C19: a client never has two open handles at one time.
C19_OneOpenHandle ==
    \A c \in Clients : Cardinality(Open(c)) <= 1

\* C20: no handle exists before the first call and handles are created by
\* calls only; a call that finds an open handle obtains that handle, so
\* calls with no close between them share one handle; a call that finds
\* no handle or a closed one creates a new handle; the handle a call
\* obtains is open when it is obtained and is the one the client refers
\* to, also after close().
C20_HandleLifecycle ==
    [][/\ \A t \in Tasks : Calls(t, "request") =>
             LET c == tasks'[t].client
                 h == tasks'[t].h
             IN  /\ h \in DOMAIN handles'
                 /\ ~handles'[h].closed
                 /\ handles'[h].owner = c
                 /\ clients'[c] = h
                 /\ IF clients[c] # 0 /\ ~is_closed(clients[c])
                    THEN h = clients[c] /\ handles' = handles
                    ELSE h = Len(handles) + 1
                         /\ handles' = Append(handles, AsyncClient(c))
       /\ Len(handles') # Len(handles) =>
             \E t \in Tasks : Calls(t, "request")
       /\ \A c \in Clients : clients'[c] # clients[c] =>
             \E t \in Tasks :
                 /\ tasks'[t].client = c
                 /\ \/ Calls(t, "request")
                    \/ tasks[t].pc = "aclose" /\ tasks'[t].pc = "returned"]_vars

\* a call made while close() is suspended in aclose: it found the closed
\* handle and obtained a new, open one
C20_Witness ==
    \E t, u \in Tasks :
        /\ tasks[t].pc = "request"
        /\ tasks[u].pc = "aclose" /\ tasks[u].client = tasks[t].client
        /\ tasks[t].h > tasks[u].h
        /\ ~is_closed(tasks[t].h)
        /\ clients[tasks[t].client] = tasks[t].h

\* C14: once the server has stopped, every handle that was created, by
\* the client of the tools as by any other, is closed and was released
\* exactly once.
C14_AllClosedAtShutdown ==
    phase = "stopped" =>
        \A i \in DOMAIN handles : handles[i].closed /\ handles[i].releases = 1

(***************************************************************************)
(* Further properties of the access policy                                 *)
(***************************************************************************)

\* the entries of the allow-list, as a set
Entries == {allowed_repos_list[i] : i \in 1..Len(allowed_repos_list)}

\* the two strings differ, and only in letter case
CaseVariant(a, b) == a # b /\ a # None /\ b # None /\ lower(a) = lower(b)

\* b is a with one "/" appended
SlashVariant(a, b) == a # None /\ b = a \o <<"/">>

\* C21: with a non-empty allow-list is_repo_allowed is true exactly when an
\* entry has the very owner asked about and is a wildcard or has the very
\* resource asked about; an entry does not permit a resource or an owner
\* that differs from its own in letter case or by a trailing slash.
C21_ExactMatch ==
    (Asked /\ Entries # {}) =>
        LET owner == last.args[1]
            repo == last.args[2]
        IN  /\ last.result.value =
                  (\E e \in Entries : e[1] = owner /\ (e[2] = None \/ e[2] = repo))
            /\ (\A e \in Entries : e[1] = owner => e[2] \notin {None, repo})
                  => last.result.value = FALSE
            /\ (\A e \in Entries : e[1] # owner) => last.result.value = FALSE

\* the one entry is exact, and the target asked about differs from it only
\* in the case of the resource, or by a trailing slash, or in the case of
\* the owner: refused
C21_Witness ==
    /\ Asked
    /\ Cardinality(Entries) = 1
    /\ last.result.value = FALSE
    /\ \E e \in Entries :
          \/ e[1] = last.args[1] /\ CaseVariant(e[2], last.args[2])
          \/ e[1] = last.args[1] /\ SlashVariant(e[2], last.args[2])
          \/ CaseVariant(e[1], last.args[1]) /\ e[2] = last.args[2]

\* C26: after a successful set-default-repository operation the runtime
\* owner and the runtime resource are both non-empty, also when no
\* static default owner is configured.
C26_OverrideComplete ==
    (last.op = "tool_set_default_repo" /\ last.result.exc = "none") =>
        Truthy(runtime_owner) /\ Truthy(runtime_repo)

\* the runtime override is not set
Unset == runtime_owner = None /\ runtime_repo = None

\* C27: the runtime override starts unset and every step that changes it
\* sets it to a pair that is_repo_allowed accepts under the configured
\* allow-list, which no step changes; so the override is always unset or
\* an allowed pair.  No get_owner_repo or is_repo_allowed call changes the
\* override or the defaults.
C27_OverrideAllowed ==
    [][/\ UNCHANGED configVars
       /\ runtimeVars' # runtimeVars =>
             is_repo_allowed(runtime_owner', runtime_repo')
       /\ last'.op \in {"get_owner_repo", "is_repo_allowed"} =>
             UNCHANGED runtimeVars]_vars

\* under a non-empty allow-list an override was set, and a later
\* set_default_repo for a target outside the list was refused
C27_Witness ==
    /\ Entries # {}
    /\ Truthy(runtime_owner) /\ Truthy(runtime_repo)
    /\ last.op = "set_default_repo"
    /\ last.result.exc = "ValueError"
    /\ last.args # <<runtime_owner, runtime_repo>>

\* the call-time value counts as not given: missing, blank, or the
\* sentinel in any letter case, with or without blanks around it
NotGiven(x, sentinel) ==
    \/ x = None
    \/ \A i \in 1..Len(x) : x[i] = " "
    \/ \E l, r \in 0..Len(x) :
          /\ l + r + Len(sentinel) = Len(x)
          /\ \A i \in 1..l : x[i] = " "
          /\ \A i \in (Len(x) - r + 1)..Len(x) : x[i] = " "
          /\ lower(SubSeq(x, l + 1, Len(x) - r)) = sentinel

\* C29: get_owner_repo treats a call-time owner that is "user" in any
\* letter case, padded or not, or only whitespace, as if no owner had
\* been given, and likewise a resource that is "repo"; any other value is
\* used with the surrounding whitespace removed, and the sentinel of one
\* field is an ordinary value in the other field.
C29_SentinelsAreAbsent ==
    Asked_get_owner_repo =>
        LET owner == last.args[1]
            repo == last.args[2]
        IN  /\ NotGiven(owner, sUser) =>
                  last.result = get_owner_repo(None, repo)
            /\ NotGiven(repo, sRepo) =>
                  last.result = get_owner_repo(owner, None)
            /\ ~NotGiven(owner, sUser) =>
                  /\ last.result.exc = "none"
                  /\ last.result.value[1] = strip(owner)
            /\ (~NotGiven(repo, sRepo) /\ last.result.exc = "none") =>
                  last.result.value[2] = strip(repo)
            /\ (owner = sRepo) => last.result.exc = "none" /\ last.result.value[1] = sRepo
            /\ (repo = sUser /\ last.result.exc = "none") => last.result.value[2] = sUser

\* the owner "repo" is used as given while the padded resource "REPO"
\* gives way to the default resource
C29_Witness ==
    /\ Asked_get_owner_repo
    /\ last.args[1] = sRepo
    /\ last.args[2] = <<" ", "R", "E", "P", "O", " ">>
    /\ Truthy(gh_default_repo)
    /\ last.result = Returns(<<sRepo, gh_default_repo>>)

\* the non-blank stretches between the separators of the allow-list text,
\* each as the positions of its first and its last non-blank character
Stretches ==
    LET s == gh_allowed_repos
        Sep(i) == i = 0 \/ i = Len(s) + 1 \/ s[i] = ","
    IN  {p \in (1..Len(s)) \X (1..Len(s)) :
            /\ p[1] <= p[2]
            /\ s[p[1]] # " " /\ s[p[2]] # " "
            /\ \A i \in p[1]..p[2] : s[i] # ","
            /\ \E a \in 0..(p[1] - 1) :
                  Sep(a) /\ \A i \in (a + 1)..(p[1] - 1) : s[i] = " "
            /\ \E b \in (p[2] + 1)..(Len(s) + 1) :
                  Sep(b) /\ \A i \in (p[2] + 1)..(b - 1) : s[i] = " "}

\* the entry that one stretch stands for
EntryOf(p) ==
    LET s == gh_allowed_repos
        Slashes == {i \in p[1]..p[2] : s[i] = "/"}
    IN  IF Slashes = {}
        THEN <<SubSeq(s, p[1], p[2]), None>>
        ELSE LET k == CHOOSE i \in Slashes : \A j \in Slashes : i <= j
             IN  IF k + 1 = p[2] /\ s[p[2]] = "*"
                 THEN <<SubSeq(s, p[1], k - 1), None>>
                 ELSE <<SubSeq(s, p[1], k - 1), SubSeq(s, k + 1, p[2])>>

\* C30: allowed_repos_list has one entry for every non-blank item of the
\* comma-separated text, trimmed: a wildcard for "owner" and for
\* "owner/*", and for "owner/name" the exact entry made of what stands
\* before and after the first slash; a text of separators and blanks only
\* gives the empty list, under which every target is allowed.
C30_ParsedAllowList ==
    /\ Len(allowed_repos_list) = Cardinality(Stretches)
    /\ Entries = {EntryOf(p) : p \in Stretches}
    /\ (\A i \in 1..Len(gh_allowed_repos) : gh_allowed_repos[i] \in {",", " "}) =>
          /\ allowed_repos_list = <<>>
          /\ Asked => last.result.value = TRUE

\* a text with empty items and padded items: "acme/wid/" becomes the exact
\* entry (acme, wid/), "bob/*" a wildcard, and a target is asked about
C30_Witness ==
    /\ Asked
    /\ allowed_repos_list = << <<acme, widgets \o <<"/">>>>, <<bob, None>> >>
    /\ Cardinality(Stretches) = 2
    /\ last.args = <<acme, widgets \o <<"/">>>>
    /\ last.result.value = TRUE

(***************************************************************************)
(* Further properties of the transport client                              *)
(***************************************************************************)

\* the call in progress was given a timeout, a connection failure or a
\* status >= 400
FailureKind ==
    \/ Failed /\ transport.exc \in TimeoutExceptions \cup OtherRequestErrors
    \/ Responded /\ transport.status_code >= 400

\* C22: one _request call sends at most one request: whenever it has an
\* outcome exactly one request was sent, and after a timeout, a connection
\* failure or a status >= 400 the caller has the GitHubError of that one
\* request.
C22_OneRequestNoRetry ==
    /\ Len(attempts) <= 1
    /\ outcome.exc # "pending" => Len(attempts) = 1 /\ attempts[1] = transport
    /\ FailureKind => outcome.exc = "GitHubError" /\ outcome = request(attempts[1])

\* a call that was given a read timeout, where a second request would
\* have been answered with 200
C22_Witness ==
    /\ Failed
    /\ transport.exc = "ReadTimeout"
    /\ attempts = <<transport>>
    /\ outcome.exc = "GitHubError"

(***************************************************************************)
(* Properties of get_contents                                              *)
(***************************************************************************)

Tagged == payload.shape = "dict" /\ payload.encoding = "base64" /\ payload.has_content

\* both decoding stages succeed on the content of the payload
Decodes ==
    /\ b64decode(payload.content).exc = "none"
    /\ utf8_decode(b64decode(payload.content).bytes, <<>>).exc = "none"

\* C23: get_contents changes content and encoding together or not at all:
\* for a payload tagged base64 whose content decodes, the content becomes
\* the decoded text and the tag utf-8; when base64 or UTF-8 decoding fails
\* the payload is returned as it was, tag and content; the call returns
\* in both cases.
C23_BothOrNeither ==
    Tagged =>
        /\ contents.shape = "dict"
        /\ Decodes =>
              /\ contents.encoding = "utf-8"
              /\ contents.content =
                    utf8_decode(b64decode(payload.content).bytes, <<>>).text
        /\ ~Decodes => contents = payload
        /\ contents.encoding \in {"base64", "utf-8"}
        /\ contents.encoding = "base64" => contents.content = payload.content
        /\ contents.encoding = "utf-8" => Decodes

\* a payload whose content is base64 of a byte that is no UTF-8 text:
\* the first stage succeeds, the second fails, nothing is changed
C23_Witness ==
    /\ Tagged
    /\ payload.content = <<"/", "w", "=", "=">>
    /\ b64decode(payload.content) = Bytes(<<255>>)
    /\ contents = payload

(***************************************************************************)
(* Further properties of the inbound middleware                            *)
(***************************************************************************)

\* the layers that ForceSSEMiddleware ran in and then called the next one
SSECalls ==
    {i \in 1..Len(events) :
        events[i].who = "ForceSSEMiddleware" /\ i < Len(events)}

IsAccept(h) == NameLower(h[1]) = "accept"
NotAccept(h) == ~IsAccept(h)

\* a GET request whose path ends with /mcp
StreamRequest(sc) ==
    /\ sc.type = "http"
    /\ sc.method = "GET"
    /\ Len(sc.path) >= 4
    /\ SubSeq(sc.path, Len(sc.path) - 3, Len(sc.path)) = <<"/", "m", "c", "p">>

\* C24: ForceSSEMiddleware hands on a GET request whose path ends with
\* /mcp with every Accept header set to text/event-stream, or with that
\* header appended when the client sent none, and with the other headers
\* as they were and in their order; every other scope is handed on as it
\* came.
C24_ForceSSEOnlyStreamGet ==
    \A i \in SSECalls :
        LET in == events[i].scope
            out == events[i + 1].scope
        IN  IF StreamRequest(in)
            THEN /\ out.type = in.type /\ out.method = in.method /\ out.path = in.path
                 /\ SelectSeq(out.headers, NotAccept) = SelectSeq(in.headers, NotAccept)
                 /\ SelectSeq(out.headers, IsAccept) # <<>>
                 /\ \A j \in 1..Len(out.headers) :
                       IsAccept(out.headers[j]) => out.headers[j][2] = sEventStream
                 /\ Len(out.headers) =
                       IF SelectSeq(in.headers, IsAccept) = <<>>
                       THEN Len(in.headers) + 1
                       ELSE Len(in.headers)
                 /\ \A j \in 1..Len(in.headers) : out.headers[j][1] = in.headers[j][1]
            ELSE out = in

\* a GET /mcp request that came with Accept: * and one other header
C24_Witness ==
    \E i \in SSECalls :
        /\ StreamRequest(events[i].scope)
        /\ Len(events[i].scope.headers) = 2
        /\ \E j, k \in 1..2 :
              /\ events[i].scope.headers[j] = <<"Accept", <<"*">>>>
              /\ NotAccept(events[i].scope.headers[k])
              /\ events[i + 1].scope.headers[j] = <<"Accept", sEventStream>>
              /\ events[i + 1].scope.headers[k] = events[i].scope.headers[k]

\* a scope that is no HTTP request
NonHttp == scope.type \notin {"none", "http"}

\* C28: with a server secret configured, AuthMiddleware hands every scope
\* that is no HTTP request (websocket, lifespan) to the wrapped
\* application as it is and checks no credential: whatever headers the
\* scope carries, nothing is answered and nothing is raised.
C28_NonHttpForwarded ==
    (Truthy(mcp_api_key) /\ NonHttp) =>
        /\ AuthCalls # {}
        /\ \A i \in AuthCalls :
              /\ events[i].what = "forward"
              /\ i < Len(events)
              /\ events[i + 1].scope = events[i].scope
        /\ events[Len(events)].who = "app"

\* a websocket scope without any credential, and one whose key header is
\* not even decodable, reach the application under a configured secret
C28_Witness ==
    /\ Truthy(mcp_api_key)
    /\ scope.type = "websocket"
    /\ \/ scope.headers = <<>>
       \/ \E j \in 1..Len(scope.headers) : scope.headers[j] = <<"x-api-key", <<BadByte>>>>
    /\ events[Len(events)].who = "app"

(***************************************************************************)
(* Further properties of the connection handle                             *)
(***************************************************************************)

\* C25: every handle that is open is the one its client refers to, so that
\* a later close() of the client releases it; no open handle is left
\* without a reference.
C25_NoOrphanHandle ==
    \A i \in DOMAIN handles :
        ~handles[i].closed => clients[handles[i].owner] = i

====
